---- MODULE Spec2Model ----
(***************************************************************************)
(* The backup-and-restore pipeline of main.py / backup_prod_db.py as a     *)
(* state machine.  One process (the driver) walks through the steps of     *)
(* main(); the environment (other database clients, the clock, whoever     *)
(* else touches the backup directory) moves between the driver's steps.    *)
(* External tools and the database engine are opaque: each call picks its  *)
(* outcome nondeterministically among the outcomes the code distinguishes. *)
(* Time is counted in days, the unit of keep_days.                         *)
(***************************************************************************)
EXTENDS Integers, Sequences, FiniteSets, TLC

\* ------------------------------------------------------------------ bounds
MaxClients == 2     \* external sessions on the target database
MaxBadKeys == 1     \* configuration keys that are not properly set
NumOld == 1         \* backup files left over from earlier runs
MaxOldMtime == 2    \* latest modification day of a left-over backup file
MaxExtraDays == 1   \* days the clock may run beyond start + 2 * keep_days
MaxLines == 2       \* lines of the credentials file

\* ------------------------------------------------------- program constants
KeepDays == 7            \* cleanup_old_backups("_db_backups", keep_days=7)
SmallBackupFloor == 1024 \* if file_size < 1024

StartTime == KeepDays
MaxTime == StartTime + KeepDays + MaxExtraDays

\* The six keys validate_environment requires, in its order.
required_configs ==
    <<"db_name", "db_owner", "db_admin", "db_host", "db_port", "script_root_path">>

RequiredKeys == {required_configs[i] : i \in 1..Len(required_configs)}

\* Keys read with config[...] at import time (a missing one is a KeyError).
ImportKeys == RequiredKeys \cup {"db_dev_name"}

\* What the YAML document holds for a key: nothing, a falsy value, a proper
\* string, or (db_name only) a truthy value that is not a string.
KindsOf(k) ==
    IF k = "db_name" THEN {"absent", "empty", "set", "nonstr"}
    ELSE IF k = "db_dev_name" THEN {"absent", "set"}
    ELSE {"absent", "empty", "set"}

\* The keys of operations_status, in the order main() runs the steps.
StepOrder ==
    <<"environment_validation", "backup", "disconnect_users",
      "recreate_db", "restore", "alter_owner">>

StepNames == {StepOrder[i] : i \in 1..Len(StepOrder)}

DomainErrors ==
    {"DatabaseBackupError", "DatabaseRestoreError", "BackupRestoreProcessError"}

CurFile == 0
FileIds == 0..NumOld
NoFile == [kind |-> "absent", size |-> 0, mtime |-> 0]
NotChecked == [kind |-> "none", size |-> 0, mtime |-> 0]
BackupSizes == {200, 1023, 1024}
ToolResults == {"ok", "nonzero", "timeout", "spawn_error"}

VARIABLES
    cfg,            \* the loaded configuration: key -> kind of value
    devIsTarget,    \* db_dev_name names the same database as local_db_name
    pc,             \* the driver's position
    exc,            \* the exception propagating out of the try block, or "none"
    status,         \* operations_status
    mainRet,        \* main()'s return value, -1 while it has not returned
    exitCode,       \* the process exit status, -1 while it runs
    active,         \* disconnect_users' active_connections, -1 before the count
    dbExists,       \* recreate_target_db's db_exists
    ownSession,     \* the session the driver holds: "none", "target", "admin"
    sessions,       \* other clients' sessions on the target database
    targetExists,   \* the target database exists in the local cluster
    files,          \* the *.sql files of _db_backups: id -> [kind, size, mtime]
    now,            \* the clock, in days
    started,        \* history: steps started, in order
    toolCalls,      \* history: external tools invoked, in order
    connects,       \* history: databases a connection was attempted to
    sqlLog,         \* history: administrative statements issued
    othersAtDrop,   \* history: other sessions open when DROP was issued, -1 if never
    othersAtCreate, \* history: other sessions open when CREATE was issued, -1 if never
    terminateCalls, \* history: pg_terminate_backend queries issued
    warnings,       \* history: warnings logged
    notes,          \* history: notifications sent
    restoreSaw,     \* history: what restore_database's file check found
    schemaRes,      \* history: result of the schema-restore invocation
    dumpRes,        \* history: result of the pg_dump invocation
    dumpSize,       \* history: size of the file a successful pg_dump left, -1 if none
    sweep,          \* history: the retention sweep's cutoff and removals
    dataRes,        \* history: result of the data-restore invocation
    remaining,      \* history: disconnect_users' remaining_connections, -1 before
    committed,      \* history: commits of alter_db_owner that succeeded
    pgFile,         \* ~/.pgpass: "missing", "unreadable" or "ok"
    pgpass,         \* the lines of ~/.pgpass
    pgEnv,          \* os.environ.get("PGPASSWORD")
    pwPc,           \* connect()'s position in the password resolution
    filePw,         \* what read_pgpass_password returned
    passed,         \* connection_params["password"], NoPassword when not passed
    net,            \* the configured addresses of the source and of the target
    touched         \* history: operations carried out, with the database addressed

drv == <<pc, exc, status, mainRet, exitCode, active, dbExists, ownSession>>
env == <<sessions, targetExists, files, now>>
hist == <<started, toolCalls, connects, sqlLog, othersAtDrop, othersAtCreate, terminateCalls, warnings, notes,
          restoreSaw, schemaRes, dumpRes, dumpSize, sweep>>
more == <<dataRes, remaining, committed>>
cred == <<pgFile, pgpass, pgEnv, pwPc, filePw, passed>>
vars == <<cfg, devIsTarget, cred, net, touched, drv, env, hist, more>>

\* --------------------------------------------------------------- helpers
BadKeys(c) == {k \in DOMAIN c : c[k] # "set"}

Configs ==
    {c \in [ImportKeys -> {"absent", "empty", "set", "nonstr"}] :
        /\ \A k \in ImportKeys : c[k] \in KindsOf(k)
        /\ Cardinality(BadKeys(c)) <= MaxBadKeys}

\* validate_environment: the keys that are absent or falsy.
MissingConfigs_OnlyAbsent(c) == {k \in RequiredKeys : c[k] = "absent"}

MissingConfigs(c) == {k \in RequiredKeys : c[k] \in {"absent", "empty"}}

\* Module-level config[...] reads: a key that is absent raises KeyError.
ImportFails(c) == \E k \in ImportKeys : c[k] = "absent"

\* --------------------------------------- the databases the steps address
\* The source is config["db_host"] / config["db_name"]; the target is
\* local_db_host / local_db_port / local_db_name, which default to
\* localhost, "5432" and "ngceng_prod_db".
Separate ==
    [prodHost |-> "prod.example", prodName |-> "orders",
     localHost |-> "localhost", localPort |-> "5432",
     localName |-> "ngceng_prod_db"]

Layouts ==
    {Separate,
     [Separate EXCEPT !.localPort = "5433"],
     [Separate EXCEPT !.prodHost = "localhost", !.prodName = "ngceng_prod_db"]}

\* The port pg_dump and pg_restore connect to when their command line names
\* none (PGPORT not set).
LibpqPort == "5432"

\* pg_dump -h{prod_db_host} -U{prod_db_admin} -d{prod_db_name}
DumpSource == [host |-> net.prodHost, port |-> LibpqPort, db |-> net.prodName]

\* connect(..., use_local=True) goes to local_db_host : local_db_port; the
\* statements of drain, recreate and reown name local_db_name there.
StatementTarget ==
    [host |-> net.localHost, port |-> net.localPort, db |-> net.localName]

\* pg_restore -h{local_db_host} -U{local_db_owner} --dbname={local_db_name}
RestoreTarget ==
    [host |-> net.localHost, port |-> LibpqPort, db |-> net.localName]

\* ------------------------------------- connect(): resolving the password
\* Text is a sequence of one-character strings.  None is a value no text
\* equals.
NoPassword == <<"None">>

\* The request of one connect() call: host, port (as str(port)), database and
\* user, in the order of the credentials file's fields.
Request == << <<"h">>, <<"5">>, <<"d">>, <<"u">> >>

Wildcard == <<"*">>

\* The first four fields of a credentials line: the requested values, with
\* at most one field replaced by '*' or by another value, or four '*'.
KeyPatterns ==
    {Request, <<Wildcard, Wildcard, Wildcard, Wildcard>>}
    \cup {[Request EXCEPT ![i] = v] : i \in 1..4, v \in {Wildcard, <<"x">>}}

\* What follows the fourth field: nothing, an empty fifth field, a password,
\* a password that holds a colon.
PasswordTails == {<<>>, << <<>> >>, << <<"s">> >>, << <<"s">>, <<"t">> >>}

\* A line of the file: a comment mark or none, and colon-separated fields.
PgLines ==
    {[comment |-> FALSE, fields |-> k \o t] : k \in KeyPatterns, t \in PasswordTails}
    \cup {[comment |-> TRUE, fields |-> Request \o << <<"s">> >>],
          [comment |-> FALSE, fields |-> << <<>> >>],
          [comment |-> FALSE, fields |-> << <<"h">>, <<"5">> >>]}

PgFiles == UNION {[1..n -> PgLines] : n \in 0..MaxLines}

RECURSIVE JoinWith(_, _)
\* sep.join(parts)
JoinWith(parts, sep) ==
    IF parts = <<>> THEN <<>>
    ELSE IF Len(parts) = 1 THEN parts[1]
    ELSE parts[1] \o <<sep>> \o JoinWith(Tail(parts), sep)

\* The line as the file holds it, newline included.
LineText(l) ==
    (IF l.comment THEN <<"#">> ELSE <<>>) \o JoinWith(l.fields, ":") \o <<"\n">>

Whitespace == {" ", "\t", "\n"}

RECURSIVE LStrip(_)
LStrip(t) ==
    IF t # <<>> /\ Head(t) \in Whitespace THEN LStrip(Tail(t)) ELSE t

RECURSIVE RStrip(_)
RStrip(t) ==
    IF t # <<>> /\ t[Len(t)] \in Whitespace
    THEN RStrip(SubSeq(t, 1, Len(t) - 1)) ELSE t

\* line.strip()
Strip(t) == RStrip(LStrip(t))

RECURSIVE SplitOn(_, _)
\* line.split(sep)
SplitOn(t, sep) ==
    IF \A i \in 1..Len(t) : t[i] # sep THEN <<t>>
    ELSE LET i == CHOOSE j \in 1..Len(t) :
                     t[j] = sep /\ \A k \in 1..(j - 1) : t[k] # sep
         IN <<SubSeq(t, 1, i - 1)>> \o SplitOn(SubSeq(t, i + 1, Len(t)), sep)

\* (pg_host == host or pg_host == "*") and ... for the four key fields
FieldMatches(field, value) == field = value \/ field = Wildcard

LineMatches(parts, req) == \A i \in 1..4 : FieldMatches(parts[i], req[i])

\* pg_password = ":".join(parts[4:])
PasswordOf_FifthFieldOnly(parts) == parts[5]

PasswordOf(parts) == JoinWith(SubSeq(parts, 5, Len(parts)), ":")

RECURSIVE ScanLines(_, _)
\* for line in f: the first line that is not blank, not a comment, has five
\* fields or more and matches decides.
ScanLines(texts, req) ==
    IF texts = <<>> THEN NoPassword
    ELSE LET line == Strip(Head(texts))
             parts == SplitOn(line, ":")
         IN IF /\ line # <<>>
               /\ line[1] # "#"
               /\ Len(parts) >= 5
               /\ LineMatches(parts, req)
            THEN PasswordOf(parts)
            ELSE ScanLines(Tail(texts), req)

\* read_pgpass_password: None when the file is not there or cannot be read.
read_pgpass_password(file, lines, req) ==
    IF file # "ok" THEN NoPassword
    ELSE ScanLines([i \in 1..Len(lines) |-> LineText(lines[i])], req)

\* if not password / if password
Falsy(p) == p = NoPassword \/ p = <<>>

Init ==
    /\ cfg \in Configs
    /\ devIsTarget \in BOOLEAN
    /\ pc = "import"
    /\ exc = "none"
    /\ status = [s \in StepNames |-> FALSE]
    /\ mainRet = -1
    /\ exitCode = -1
    /\ active = -1
    /\ dbExists = FALSE
    /\ ownSession = "none"
    /\ targetExists \in BOOLEAN
    /\ sessions \in (IF targetExists THEN 0..MaxClients ELSE {0})
    /\ files \in {f \in [FileIds -> [kind : {"absent", "file"}, size : {0, 2048},
                                     mtime : 0..MaxOldMtime]] :
                    /\ f[CurFile] = NoFile
                    /\ \A i \in FileIds :
                          IF f[i].kind = "absent" THEN f[i] = NoFile
                          ELSE f[i].size = 2048}
    /\ now = StartTime
    /\ started = <<>>
    /\ toolCalls = <<>>
    /\ connects = <<>>
    /\ sqlLog = <<>>
    /\ othersAtDrop = -1
    /\ othersAtCreate = -1
    /\ terminateCalls = 0
    /\ warnings = {}
    /\ notes = <<>>
    /\ restoreSaw = NotChecked
    /\ schemaRes = "none"
    /\ dumpRes = "none"
    /\ dumpSize = -1
    /\ sweep = [ran |-> FALSE, cutoff |-> 0, removed |-> {}]
    /\ dataRes = "none"
    /\ remaining = -1
    /\ committed = 0
    \* The addresses decide no step's outcome: the layouts other than the
    \* separate one are run with a complete configuration, a neutral
    \* db_dev_name and an empty backup directory.
    /\ net \in Layouts
    /\ net # Separate =>
          /\ BadKeys(cfg) = {}
          /\ ~devIsTarget
          /\ \A i \in FileIds : files[i] = NoFile
    /\ touched = {}
    /\ pgFile = "missing"
    /\ pgpass = <<>>
    /\ pgEnv = NoPassword
    /\ pwPc = "off"
    /\ filePw = NoPassword
    /\ passed = NoPassword

\* ------------------------------------------------- control flow of main()
\* An exception raised by a call in main()'s try block leaves the block: no
\* call of the block is wrapped on its own, so the statement that would have
\* come next (at nextpc) is not reached.
OnRaise_Swallow(nextpc) == nextpc

OnRaise_Retry(nextpc) ==
    CASE nextpc = "drain_connect" -> "backup"
      [] nextpc = "reown_connect" -> "restore_check"
      [] OTHER -> "raise"

OnRaise_ToCleanup(nextpc) == "cleanup"

OnRaise(nextpc) == "raise"

\* main()'s return value, by the exception that ended the try block.
ReturnCodeFor_RestoreIgnored(e) ==
    IF e \in {"none", "DatabaseRestoreError"} THEN 0 ELSE 1

ReturnCodeFor(e) == IF e = "none" THEN 0 ELSE 1

\* send_notification(success, ...): the status announced.
Notification_AlwaysSuccess(success) == "success"

Notification(success) == IF success THEN "success" ELSE "failure"

Start(step) == started' = Append(started, step)

\* The step's call returned: operations_status[step] = True, go on.
StepDone_CopyPaste(step, nextpc) ==
    /\ status' = [status EXCEPT
                     ![IF step = "recreate_db" THEN "restore" ELSE step] = TRUE]
    /\ pc' = nextpc
    /\ exc' = exc

StepDone(step, nextpc) ==
    /\ status' = [status EXCEPT ![step] = TRUE]
    /\ pc' = nextpc
    /\ exc' = exc

\* The step's call raised e.
StepRaises(e, nextpc) ==
    /\ status' = status
    /\ pc' = OnRaise(nextpc)
    /\ exc' = e

\* --------------------------------------------- the steps' except clauses
\* What a failed subprocess.run(..., check=True, timeout=...) raises: a
\* non-zero exit, an expired timeout, a program that could not be started.
RawOf(res) ==
    CASE res = "nonzero" -> "CalledProcessError"
      [] res = "timeout" -> "TimeoutExpired"
      [] OTHER -> "OSError"

\* What a failed psycopg2 call raises.
SqlErrors == {"OperationalError", "DatabaseError"}

\* The except clauses of a function that name the classes they catch.
NamedHandlers(fn) ==
    CASE fn = "connect" -> {"OperationalError"}
      [] fn \in {"backup_database", "restore_database"} ->
            {"TimeoutExpired", "CalledProcessError"}
      [] OTHER -> {"OperationalError", "DatabaseError"}

\* The class every except clause of the function raises.
DomainErrorOf(fn) ==
    IF fn = "restore_database" THEN "DatabaseRestoreError"
    ELSE "DatabaseBackupError"

\* The last clause of every function: except Exception as e.
CatchAll_Absent(raw) == FALSE

CatchAll(raw) == TRUE

\* The exception that leaves fn when raw is raised inside its try block.
RaisedBy(fn, raw) ==
    IF raw \in NamedHandlers(fn) \/ CatchAll(raw)
    THEN DomainErrorOf(fn) ELSE raw

\* connect() failed: what reaches the calling step.
ConnectErrors == {RaisedBy("connect", raw) : raw \in SqlErrors}

\* One of raws was raised inside fn, called from main()'s try block.
FunctionRaises(fn, raws, nextpc) ==
    \E raw \in raws : StepRaises(RaisedBy(fn, raw), nextpc)

\* ------------------------------------------------------------- start-up
ImportModules ==
    /\ pc = "import"
    /\ IF ImportFails(cfg)
       THEN pc' = "exited" /\ exitCode' = 1
       ELSE pc' = "set_logger" /\ exitCode' = exitCode
    /\ touched' = touched
    /\ UNCHANGED <<cfg, devIsTarget, cred, net, more, exc, status, mainRet, active, dbExists, ownSession, env, hist>>

SetLogger ==
    /\ pc = "set_logger"
    /\ \E ok \in BOOLEAN :
          IF ok THEN pc' = "validate" /\ exitCode' = exitCode
          ELSE pc' = "exited" /\ exitCode' = 1
    /\ touched' = touched
    /\ UNCHANGED <<cfg, devIsTarget, cred, net, more, exc, status, mainRet, active, dbExists, ownSession, env, hist>>

\* ------------------------------------------------------- step 1: validate
ValidateEnvironment ==
    /\ pc = "validate"
    /\ Start("environment_validation")
    /\ IF MissingConfigs(cfg) # {}
       THEN StepRaises("BackupRestoreProcessError", "prepare")
       ELSE StepDone("environment_validation", "prepare")
    /\ touched' = touched
    /\ UNCHANGED <<cfg, devIsTarget, cred, net, more, mainRet, exitCode, active, dbExists, ownSession, env>>
    /\ UNCHANGED <<toolCalls, connects, sqlLog, othersAtDrop, othersAtCreate, terminateCalls, warnings, notes,
                   restoreSaw, schemaRes, dumpRes, dumpSize, sweep>>

\* backup_file = db_name + "_" + strftime(...): a TypeError when db_name is
\* not a string.
PreparePaths ==
    /\ pc = "prepare"
    /\ IF cfg["db_name"] = "nonstr"
       THEN pc' = OnRaise("backup") /\ exc' = "TypeError"
       ELSE pc' = "backup" /\ exc' = exc
    /\ touched' = touched
    /\ UNCHANGED <<cfg, devIsTarget, cred, net, more, status, mainRet, exitCode, active, dbExists, ownSession, env, hist>>

\* --------------------------------------------------------- step 2: backup
\* backup_database returns True when pg_dump ran to exit code zero (check=True
\* turns any other exit, a timeout or a failed spawn into an exception) and the
\* output path exists; the size of the file plays no part.
BackupReturnsTrue_SizeFatal(res, f) ==
    res = "ok" /\ f.kind # "absent" /\ f.size >= SmallBackupFloor

BackupReturnsTrue(res, f) == res = "ok" /\ f.kind # "absent"

\* "Backup file size is very small" is logged below the floor.
SmallBackup_EmptyOnly(f) == f.size = 0

SmallBackup(f) == f.size < SmallBackupFloor

BackupDatabase ==
    /\ pc = "backup"
    /\ Start("backup")
    /\ \E prereq \in BOOLEAN :
          IF ~prereq
          THEN \* validate_backup_prerequisites raised (mkdir, disk_usage)
               /\ FunctionRaises("backup_database", {"OSError"}, "drain_connect")
               /\ UNCHANGED <<toolCalls, dumpRes, dumpSize, files, warnings>>
          ELSE \E res \in ToolResults, wrote \in BOOLEAN, size \in BackupSizes :
               /\ toolCalls' = Append(toolCalls, "pg_dump")
               /\ dumpRes' = res
               /\ dumpSize' = IF res = "ok" /\ wrote THEN size ELSE dumpSize
               /\ files' = IF wrote /\ res # "spawn_error"
                           THEN [files EXCEPT ![CurFile] =
                                    [kind |-> "file", size |-> size, mtime |-> now]]
                           ELSE files
               /\ IF BackupReturnsTrue(res, files'[CurFile])
                  THEN /\ StepDone("backup", "drain_connect")
                       /\ warnings' = IF SmallBackup(files'[CurFile])
                                      THEN warnings \cup {"small_backup"}
                                      ELSE warnings
                  ELSE /\ FunctionRaises("backup_database",
                                       {IF res = "ok" THEN "DatabaseBackupError"
                                        ELSE RawOf(res)},
                                       "drain_connect")
                       /\ warnings' = warnings
    /\ touched' = IF toolCalls' # toolCalls
                  THEN touched \cup {<<"dump", DumpSource>>} ELSE touched
    /\ UNCHANGED <<cfg, devIsTarget, cred, net, more, mainRet, exitCode, active, dbExists, ownSession>>
    /\ UNCHANGED <<sessions, targetExists, now>>
    /\ UNCHANGED <<connects, sqlLog, othersAtDrop, othersAtCreate, terminateCalls, notes, restoreSaw, schemaRes, sweep>>

\* ---------------------------------------------- step 3: disconnect_users
\* connect(): psycopg2.connect to the named database of the local cluster; any
\* failure (the database does not exist, network, authentication) is raised
\* as DatabaseBackupError.
ConnectSucceeds(db, ok) == ok /\ (db = "target" => targetExists)

\* A failure inside a step that holds a session: the finally clause closes
\* the cursor and the session, then the error leaves the step.
StepFails_NoFinally(fn, raws, nextpc) ==
    /\ FunctionRaises(fn, raws, nextpc)
    /\ ownSession' = ownSession

StepFails(fn, raws, nextpc) ==
    /\ FunctionRaises(fn, raws, nextpc)
    /\ ownSession' = "none"

\* if active_connections == 0: return True
NoActiveConnections_Never(n) == FALSE

NoActiveConnections(n) == n = 0

DrainConnect ==
    /\ pc = "drain_connect"
    /\ Start("disconnect_users")
    /\ connects' = Append(connects, "target")
    /\ \E ok \in BOOLEAN :
          IF ConnectSucceeds("target", ok)
          THEN /\ pc' = "drain_count"
               /\ ownSession' = "target"
               /\ UNCHANGED <<exc, status>>
          ELSE StepFails("disconnect_users", ConnectErrors, "recreate_connect")
    /\ touched' = touched
    /\ UNCHANGED <<cfg, devIsTarget, cred, net, more, mainRet, exitCode, active, dbExists, env>>
    /\ UNCHANGED <<toolCalls, sqlLog, othersAtDrop, othersAtCreate, terminateCalls, warnings, notes,
                   restoreSaw, schemaRes, dumpRes, dumpSize, sweep>>

\* Active connections are terminated at once: the code neither waits for
\* them to leave nor counts again before it terminates.
WhenConnectionsActive_WaitAndRecount == "drain_count"

WhenConnectionsActive == "drain_terminate"

\* The count of other sessions on the target, and the early return on zero.
DrainCount ==
    /\ pc = "drain_count"
    /\ \E ok \in BOOLEAN :
          IF ~ok
          THEN /\ StepFails("disconnect_users", SqlErrors, "recreate_connect")
               /\ active' = active
          ELSE /\ active' = sessions
               /\ IF NoActiveConnections(active')
                  THEN /\ StepDone("disconnect_users", "recreate_connect")
                       /\ ownSession' = "none"
                  ELSE /\ pc' = WhenConnectionsActive
                       /\ UNCHANGED <<exc, status, ownSession>>
    /\ touched' = touched
    /\ UNCHANGED <<cfg, devIsTarget, cred, net, more, mainRet, exitCode, dbExists, env, hist>>

\* SELECT pg_terminate_backend(pid) over every other session on the target:
\* each session is signalled; it ends or it survives.
DrainTerminate ==
    /\ pc = "drain_terminate"
    /\ terminateCalls' = terminateCalls + 1
    /\ \E ok \in BOOLEAN :
          IF ~ok
          THEN /\ StepFails("disconnect_users", SqlErrors, "recreate_connect")
               /\ sessions' = sessions
          ELSE /\ \E left \in 0..sessions : sessions' = left
               /\ pc' = "drain_recount"
               /\ UNCHANGED <<exc, status, ownSession>>
    /\ touched' = touched \cup {<<"terminate", StatementTarget>>}
    /\ UNCHANGED <<cfg, devIsTarget, cred, net, more, mainRet, exitCode, active, dbExists>>
    /\ UNCHANGED <<targetExists, files, now>>
    /\ UNCHANGED <<started, toolCalls, connects, sqlLog, othersAtDrop, othersAtCreate, warnings, notes,
                   restoreSaw, schemaRes, dumpRes, dumpSize, sweep>>

\* After the re-count the step returns True whatever remaining_connections is.
DrainReturnsTrue_OnlyIfZero(n) == n = 0

DrainReturnsTrue(n) == TRUE

\* The re-count: sessions that remain are logged, and the step returns True.
DrainRecount ==
    /\ pc = "drain_recount"
    /\ \E ok \in BOOLEAN :
          IF ~ok
          THEN /\ StepFails("disconnect_users", SqlErrors, "recreate_connect")
               /\ UNCHANGED <<warnings, remaining>>
          ELSE /\ remaining' = sessions
               /\ warnings' = IF remaining' > 0
                              THEN warnings \cup {"connections_remain"}
                              ELSE warnings
               /\ IF DrainReturnsTrue(remaining')
                  THEN /\ StepDone("disconnect_users", "recreate_connect")
                       /\ ownSession' = "none"
                  ELSE StepFails("disconnect_users", {"DatabaseBackupError"},
                                 "recreate_connect")
    /\ touched' = touched
    /\ UNCHANGED <<dataRes, committed>>
    /\ UNCHANGED <<cfg, devIsTarget, cred, net, mainRet, exitCode, active, dbExists, env>>
    /\ UNCHANGED <<started, toolCalls, connects, sqlLog, othersAtDrop, othersAtCreate, terminateCalls, notes,
                   restoreSaw, schemaRes, dumpRes, dumpSize, sweep>>

\* -------------------------------------------- step 4: recreate_target_db
\* connect(db_dev_name, use_local=True): the database the recreate step's
\* session is on. It is the target when db_dev_name names the target.
AdminDb == IF devIsTarget THEN "target" ELSE "admin"

RecreateConnect ==
    /\ pc = "recreate_connect"
    /\ Start("recreate_db")
    /\ connects' = Append(connects, AdminDb)
    /\ \E ok \in BOOLEAN :
          IF ConnectSucceeds(AdminDb, ok)
          THEN /\ pc' = "recreate_check"
               /\ ownSession' = AdminDb
               /\ UNCHANGED <<exc, status>>
          ELSE StepFails("recreate_target_db", ConnectErrors, "restore_check")
    /\ touched' = touched
    /\ UNCHANGED <<cfg, devIsTarget, cred, net, more, mainRet, exitCode, active, dbExists, env>>
    /\ UNCHANGED <<toolCalls, sqlLog, othersAtDrop, othersAtCreate, terminateCalls, warnings, notes,
                   restoreSaw, schemaRes, dumpRes, dumpSize, sweep>>

\* if db_exists: DROP DATABASE
DropNeeded_Always(found) == TRUE

DropNeeded(found) == found

\* SELECT 1 FROM pg_database WHERE datname = target; db_exists decides the drop.
RecreateCheck ==
    /\ pc = "recreate_check"
    /\ \E ok \in BOOLEAN :
          IF ~ok
          THEN /\ StepFails("recreate_target_db", SqlErrors, "restore_check")
               /\ dbExists' = dbExists
          ELSE /\ dbExists' = targetExists
               /\ pc' = IF DropNeeded(dbExists')
                        THEN "recreate_drop" ELSE "recreate_create"
               /\ UNCHANGED <<exc, status, ownSession>>
    /\ touched' = touched
    /\ UNCHANGED <<cfg, devIsTarget, cred, net, more, mainRet, exitCode, active, env, hist>>

\* The engine refuses to drop a database that is absent, that other sessions
\* are connected to or that the issuing session is on; it refuses to create
\* one that exists.
DropAccepted(ok) == ok /\ targetExists /\ sessions = 0 /\ ownSession # "target"

CreateAccepted(ok) == ok /\ ~targetExists

\* DROP DATABASE target
RecreateDrop ==
    /\ pc = "recreate_drop"
    /\ sqlLog' = Append(sqlLog, "DROP")
    /\ othersAtDrop' = sessions
    /\ othersAtCreate' = othersAtCreate
    /\ \E ok \in BOOLEAN :
          IF DropAccepted(ok)
          THEN /\ targetExists' = FALSE
               /\ pc' = "recreate_create"
               /\ UNCHANGED <<exc, status, ownSession>>
          ELSE /\ StepFails("recreate_target_db", SqlErrors, "restore_check")
               /\ targetExists' = targetExists
    /\ touched' = touched \cup {<<"drop", StatementTarget>>}
    /\ UNCHANGED <<cfg, devIsTarget, cred, net, more, mainRet, exitCode, active, dbExists>>
    /\ UNCHANGED <<sessions, files, now>>
    /\ UNCHANGED <<started, toolCalls, connects, terminateCalls, warnings, notes,
                   restoreSaw, schemaRes, dumpRes, dumpSize, sweep>>

\* CREATE DATABASE target OWNER owner
RecreateCreate ==
    /\ pc = "recreate_create"
    /\ sqlLog' = Append(sqlLog, "CREATE")
    /\ othersAtCreate' = sessions
    /\ othersAtDrop' = othersAtDrop
    /\ \E ok \in BOOLEAN :
          IF CreateAccepted(ok)
          THEN /\ targetExists' = TRUE
               /\ StepDone("recreate_db", "restore_check")
               /\ ownSession' = "none"
          ELSE /\ StepFails("recreate_target_db", SqlErrors, "restore_check")
               /\ targetExists' = targetExists
    /\ touched' = touched \cup {<<"create", StatementTarget>>}
    /\ UNCHANGED <<cfg, devIsTarget, cred, net, more, mainRet, exitCode, active, dbExists>>
    /\ UNCHANGED <<sessions, files, now>>
    /\ UNCHANGED <<started, toolCalls, connects, terminateCalls, warnings, notes,
                   restoreSaw, schemaRes, dumpRes, dumpSize, sweep>>

\* ------------------------------------------------ step 5: restore_database
\* The backup path must exist and be a regular file.
RestoreCheckPasses_NoCheck(f) == TRUE

\* if not backup_file_path.exists() ... / if not backup_file_path.is_file() ...
RestoreCheckPasses_ExistsOnly(f) == f.kind # "absent"

RestoreCheckPasses(f) == f.kind = "file"

\* subprocess.run(..., check=True, timeout=...) returns only on exit code
\* zero; a non-zero exit, a timeout and a failed spawn raise.
PhaseSucceeded_IgnoreExit(res) == res \in {"ok", "nonzero"}

PhaseSucceeded(res) == res = "ok"

RestoreCheck ==
    /\ pc = "restore_check"
    /\ Start("restore")
    /\ restoreSaw' = files[CurFile]
    /\ IF RestoreCheckPasses(files[CurFile])
       THEN pc' = "restore_schema" /\ UNCHANGED <<exc, status>>
       ELSE FunctionRaises("restore_database", {"DatabaseRestoreError"},
                           "reown_connect")
    /\ touched' = touched
    /\ UNCHANGED <<cfg, devIsTarget, cred, net, more, mainRet, exitCode, active, dbExists, ownSession, env>>
    /\ UNCHANGED <<toolCalls, connects, sqlLog, othersAtDrop, othersAtCreate, terminateCalls, warnings, notes,
                   schemaRes, dumpRes, dumpSize, sweep>>

\* pg_restore --schema-only
RestoreSchema ==
    /\ pc = "restore_schema"
    /\ toolCalls' = Append(toolCalls, "pg_restore_schema")
    /\ \E res \in ToolResults :
          /\ schemaRes' = res
          /\ IF PhaseSucceeded(res)
             THEN pc' = "restore_data" /\ UNCHANGED <<exc, status>>
             ELSE FunctionRaises("restore_database", {RawOf(res)},
                                 "reown_connect")
    /\ touched' = touched \cup {<<"restore_schema", RestoreTarget>>}
    /\ UNCHANGED <<cfg, devIsTarget, cred, net, more, mainRet, exitCode, active, dbExists, ownSession, env>>
    /\ UNCHANGED <<started, connects, sqlLog, othersAtDrop, othersAtCreate, terminateCalls, warnings, notes,
                   restoreSaw, dumpRes, dumpSize, sweep>>

\* pg_restore --data-only --exit-on-error
RestoreData ==
    /\ pc = "restore_data"
    /\ toolCalls' = Append(toolCalls, "pg_restore_data")
    /\ \E res \in ToolResults :
          /\ dataRes' = res
          /\ IF PhaseSucceeded(res)
             THEN StepDone("restore", "reown_connect")
             ELSE FunctionRaises("restore_database", {RawOf(res)},
                                 "reown_connect")
    /\ touched' = touched \cup {<<"restore_data", RestoreTarget>>}
    /\ UNCHANGED <<remaining, committed>>
    /\ UNCHANGED <<cfg, devIsTarget, cred, net, mainRet, exitCode, active, dbExists, ownSession, env>>
    /\ UNCHANGED <<started, connects, sqlLog, othersAtDrop, othersAtCreate, terminateCalls, warnings, notes,
                   restoreSaw, schemaRes, dumpRes, dumpSize, sweep>>

\* -------------------------------------------------- step 6: alter_db_owner
ReownConnect ==
    /\ pc = "reown_connect"
    /\ Start("alter_owner")
    /\ connects' = Append(connects, "target")
    /\ \E ok \in BOOLEAN :
          IF ConnectSucceeds("target", ok)
          THEN /\ pc' = "reown_grant"
               /\ ownSession' = "target"
               /\ UNCHANGED <<exc, status>>
          ELSE StepFails("alter_db_owner", ConnectErrors, "cleanup")
    /\ touched' = touched
    /\ UNCHANGED <<cfg, devIsTarget, cred, net, more, mainRet, exitCode, active, dbExists, env>>
    /\ UNCHANGED <<toolCalls, sqlLog, othersAtDrop, othersAtCreate, terminateCalls, warnings, notes,
                   restoreSaw, schemaRes, dumpRes, dumpSize, sweep>>

\* cursor.execute(query); db.commit(): the next line is reached only when
\* neither raised.
StatementOk_IgnoreCommit(r) == r \in {"ok", "commit_fails"}

StatementOk(r) == r = "ok"

\* GRANT ALL PRIVILEGES ... ; db.commit()
ReownGrant ==
    /\ pc = "reown_grant"
    /\ \E r \in {"exec_fails", "commit_fails", "ok"} :
          /\ sqlLog' = sqlLog \o
                (IF r = "exec_fails"
                 THEN <<"GRANT">>
                 ELSE <<"GRANT", "COMMIT">>)
          /\ committed' = IF r = "ok" THEN committed + 1 ELSE committed
          /\ IF StatementOk(r)
             THEN pc' = "reown_alter" /\ UNCHANGED <<exc, status, ownSession>>
             ELSE StepFails("alter_db_owner", SqlErrors, "cleanup")
    /\ touched' = touched \cup {<<"grant", StatementTarget>>}
    /\ UNCHANGED <<dataRes, remaining>>
    /\ UNCHANGED <<cfg, devIsTarget, cred, net, mainRet, exitCode, active, dbExists, env>>
    /\ UNCHANGED <<started, toolCalls, connects, othersAtDrop, othersAtCreate,
                   terminateCalls, warnings, notes, restoreSaw, schemaRes, dumpRes, dumpSize, sweep>>

\* ALTER DATABASE ... OWNER TO ... ; db.commit()
ReownAlter ==
    /\ pc = "reown_alter"
    /\ \E r \in {"exec_fails", "commit_fails", "ok"} :
          /\ sqlLog' = sqlLog \o
                (IF r = "exec_fails"
                 THEN <<"ALTER">>
                 ELSE <<"ALTER", "COMMIT">>)
          /\ committed' = IF r = "ok" THEN committed + 1 ELSE committed
          /\ IF StatementOk(r)
             THEN StepDone("alter_owner", "cleanup") /\ ownSession' = "none"
             ELSE StepFails("alter_db_owner", SqlErrors, "cleanup")
    /\ touched' = touched \cup {<<"alter_owner", StatementTarget>>}
    /\ UNCHANGED <<dataRes, remaining>>
    /\ UNCHANGED <<cfg, devIsTarget, cred, net, mainRet, exitCode, active, dbExists, env>>
    /\ UNCHANGED <<started, toolCalls, connects, othersAtDrop, othersAtCreate,
                   terminateCalls, warnings, notes, restoreSaw, schemaRes, dumpRes, dumpSize, sweep>>

\* ------------------------------------------------------ retention sweep
\* if backup_file.stat().st_mtime < cutoff_time
IsOldBackup_Inclusive(mtime, cutoff) == mtime <= cutoff

IsOldBackup(mtime, cutoff) == mtime < cutoff

\* cutoff_time = now - keep_days (in days)
CutoffTime(t, keep_days) == t - keep_days

\* cleanup_old_backups("_db_backups", keep_days=7): every *.sql entry older
\* than the cutoff is unlinked, in the directory's order; an exception (an
\* entry that is a directory, a failing stat or unlink) ends the loop and is
\* logged, so any part of the old regular files may have been removed by then.
\* except Exception as e: logger.warning("Failed to clean up old backups")
\* is all that happens to an exception of the sweep.
SweepFailureEscapes_Reraised(err) == err

SweepFailureEscapes(err) == FALSE

CleanupOldBackups ==
    /\ pc = "cleanup"
    /\ LET cutoff == CutoffTime(now, KeepDays)
           old == {i \in FileIds : /\ files[i].kind # "absent"
                                   /\ IsOldBackup(files[i].mtime, cutoff)}
           oldRegular == {i \in old : files[i].kind = "file"}
       IN \E err \in BOOLEAN, R \in SUBSET oldRegular :
             /\ ~err => R = old
             /\ files' = [i \in FileIds |-> IF i \in R THEN NoFile ELSE files[i]]
             /\ sweep' = [ran |-> TRUE, cutoff |-> cutoff,
                          removed |-> {<<i, files[i].mtime>> : i \in R}]
             /\ warnings' = IF err THEN warnings \cup {"cleanup_failed"}
                            ELSE warnings
             /\ IF SweepFailureEscapes(err)
                THEN pc' = "raise" /\ exc' = "OSError"
                ELSE pc' = "notify" /\ exc' = exc
    /\ touched' = touched
    /\ UNCHANGED <<cfg, devIsTarget, cred, net, more, status, mainRet, exitCode, active, dbExists, ownSession>>
    /\ UNCHANGED <<sessions, targetExists, now>>
    /\ UNCHANGED <<started, toolCalls, connects, sqlLog, othersAtDrop, othersAtCreate, terminateCalls, notes,
                   restoreSaw, schemaRes, dumpRes, dumpSize>>

\* ------------------------------------------------------ leaving main()
\* send_notification(True, ...); return 0
ReturnSuccess ==
    /\ pc = "notify"
    /\ notes' = Append(notes, Notification(TRUE))
    /\ mainRet' = ReturnCodeFor(exc)
    /\ pc' = "returned"
    /\ touched' = touched
    /\ UNCHANGED <<cfg, devIsTarget, cred, net, more, exc, status, exitCode, active, dbExists, ownSession, env>>
    /\ UNCHANGED <<started, toolCalls, connects, sqlLog, othersAtDrop, othersAtCreate, terminateCalls, warnings,
                   restoreSaw, schemaRes, dumpRes, dumpSize, sweep>>

\* except (DatabaseBackupError, DatabaseRestoreError, BackupRestoreProcessError)
HandleDomainError ==
    /\ pc = "raise"
    /\ exc \in DomainErrors
    /\ notes' = Append(notes, Notification(FALSE))
    /\ mainRet' = ReturnCodeFor(exc)
    /\ pc' = "returned"
    /\ touched' = touched
    /\ UNCHANGED <<cfg, devIsTarget, cred, net, more, exc, status, exitCode, active, dbExists, ownSession, env>>
    /\ UNCHANGED <<started, toolCalls, connects, sqlLog, othersAtDrop, othersAtCreate, terminateCalls, warnings,
                   restoreSaw, schemaRes, dumpRes, dumpSize, sweep>>

\* except Exception
HandleUnexpected ==
    /\ pc = "raise"
    /\ exc \notin DomainErrors
    /\ notes' = Append(notes, Notification(FALSE))
    /\ mainRet' = ReturnCodeFor(exc)
    /\ pc' = "returned"
    /\ touched' = touched
    /\ UNCHANGED <<cfg, devIsTarget, cred, net, more, exc, status, exitCode, active, dbExists, ownSession, env>>
    /\ UNCHANGED <<started, toolCalls, connects, sqlLog, othersAtDrop, othersAtCreate, terminateCalls, warnings,
                   restoreSaw, schemaRes, dumpRes, dumpSize, sweep>>

\* sys.exit(exit_code)
SysExit ==
    /\ pc = "returned"
    /\ exitCode' = mainRet
    /\ pc' = "exited"
    /\ touched' = touched
    /\ UNCHANGED <<cfg, devIsTarget, cred, net, more, exc, status, mainRet, active, dbExists, ownSession, env, hist>>

\* ----------------------------------------------------------- environment
\* The environment moves where the driver can tell: a move made earlier
\* commutes with the driver's steps up to the step that observes it.
\* The clock is read when pg_dump writes the file and when the sweep computes
\* its cutoff; the run starts at StartTime and the time it took shows at the
\* sweep.
Tick ==
    /\ pc = "cleanup"
    /\ now < MaxTime
    /\ now' = now + 1
    /\ touched' = touched
    /\ UNCHANGED <<cfg, devIsTarget, cred, net, more, drv, sessions, targetExists, files, hist>>

\* Sessions on the target are observed from the drain step's connection to the
\* recreate step's last statement.
DrainToRecreate ==
    {"drain_connect", "drain_count", "drain_terminate", "drain_recount",
     "recreate_connect", "recreate_check", "recreate_drop", "recreate_create"}

\* Another client opens a session on the target database.
ClientConnect ==
    /\ pc \in DrainToRecreate
    /\ targetExists
    /\ sessions < MaxClients
    /\ sessions' = sessions + 1
    /\ touched' = touched
    /\ UNCHANGED <<cfg, devIsTarget, cred, net, more, drv, targetExists, files, now, hist>>

\* Another client closes its session.
ClientDisconnect ==
    /\ pc \in DrainToRecreate
    /\ sessions > 0
    /\ sessions' = sessions - 1
    /\ touched' = touched
    /\ UNCHANGED <<cfg, devIsTarget, cred, net, more, drv, targetExists, files, now, hist>>

\* Somebody else drops the target database while nobody is connected to it.
ExternalDrop ==
    /\ pc \in DrainToRecreate
    /\ targetExists
    /\ sessions = 0
    /\ ownSession # "target"
    /\ targetExists' = FALSE
    /\ touched' = touched
    /\ UNCHANGED <<cfg, devIsTarget, cred, net, more, drv, sessions, files, now, hist>>

\* Somebody else removes the backup file, or puts a directory in its place,
\* before restore_database looks at it or before the sweep does.
ExternalRemoveBackup ==
    /\ pc \in {"restore_check", "cleanup"}
    /\ files[CurFile].kind = "file"
    /\ \E k \in {"absent", "dir"} :
          files' = [files EXCEPT ![CurFile] =
                       IF k = "absent" THEN NoFile
                       ELSE [kind |-> "dir", size |-> 0, mtime |-> now]]
    /\ touched' = touched
    /\ UNCHANGED <<cfg, devIsTarget, cred, net, more, drv, sessions, targetExists, now, hist>>

Next ==
    \/ ImportModules
    \/ SetLogger
    \/ ValidateEnvironment
    \/ PreparePaths
    \/ BackupDatabase
    \/ DrainConnect
    \/ DrainCount
    \/ DrainTerminate
    \/ DrainRecount
    \/ RecreateConnect
    \/ RecreateCheck
    \/ RecreateDrop
    \/ RecreateCreate
    \/ RestoreCheck
    \/ RestoreSchema
    \/ RestoreData
    \/ ReownConnect
    \/ ReownGrant
    \/ ReownAlter
    \/ CleanupOldBackups
    \/ ReturnSuccess
    \/ HandleDomainError
    \/ HandleUnexpected
    \/ SysExit
    \/ Tick
    \/ ClientConnect
    \/ ClientDisconnect
    \/ ExternalDrop
    \/ ExternalRemoveBackup

Spec == Init /\ [][Next]_vars

\* ------------------------------------------- the password resolution alone
\* password = read_pgpass_password(host, port, db_name, owner)
ReadPgpass ==
    /\ pwPc = "start"
    /\ filePw' = read_pgpass_password(pgFile, pgpass, Request)
    /\ pwPc' = "env"
    /\ UNCHANGED <<cfg, devIsTarget, net, touched, pgFile, pgpass, pgEnv, passed, drv, env, hist, more>>

\* if not password: password = os.environ.get("PGPASSWORD")
\* if password: connection_params["password"] = password
ChoosePassword ==
    /\ pwPc = "env"
    /\ LET password == IF Falsy(filePw) THEN pgEnv ELSE filePw
       IN passed' = IF Falsy(password) THEN NoPassword ELSE password
    /\ pwPc' = "done"
    /\ UNCHANGED <<cfg, devIsTarget, net, touched, pgFile, pgpass, pgEnv, filePw, drv, env, hist, more>>

\* One connect() call per credentials file and environment.
PwInit ==
    /\ cfg = [k \in ImportKeys |-> "set"]
    /\ devIsTarget = FALSE
    /\ pc = "drain_connect"
    /\ exc = "none"
    /\ status = [s \in StepNames |-> s \in {"environment_validation", "backup"}]
    /\ mainRet = -1
    /\ exitCode = -1
    /\ active = -1
    /\ dbExists = FALSE
    /\ ownSession = "none"
    /\ targetExists = TRUE
    /\ sessions = 0
    /\ files = [i \in FileIds |-> NoFile]
    /\ now = StartTime
    /\ started = <<>>
    /\ toolCalls = <<>>
    /\ connects = <<>>
    /\ sqlLog = <<>>
    /\ othersAtDrop = -1
    /\ othersAtCreate = -1
    /\ terminateCalls = 0
    /\ warnings = {}
    /\ notes = <<>>
    /\ restoreSaw = NotChecked
    /\ schemaRes = "none"
    /\ dumpRes = "none"
    /\ dumpSize = -1
    /\ sweep = [ran |-> FALSE, cutoff |-> 0, removed |-> {}]
    /\ dataRes = "none"
    /\ remaining = -1
    /\ committed = 0
    /\ net = Separate
    /\ touched = {}
    /\ pgFile \in {"missing", "unreadable", "ok"}
    /\ pgpass \in (IF pgFile = "ok" THEN PgFiles ELSE {<<>>})
    /\ pgEnv \in {NoPassword, <<>>, <<"e">>}
    /\ pwPc = "start"
    /\ filePw = NoPassword
    /\ passed = NoPassword

PwNext == ReadPgpass \/ ChoosePassword

PwSpec == PwInit /\ [][PwNext]_vars

\* -------------------------------------------------------------- progress
\* The driver's own steps.  The program is sequential and nothing suspends
\* it: every external tool call is bounded by its timeout and every
\* database call is taken to return or raise, so the driver's next step is
\* eventually taken.  The environment is under no obligation.
DriverStep ==
    \/ ImportModules
    \/ SetLogger
    \/ ValidateEnvironment
    \/ PreparePaths
    \/ BackupDatabase
    \/ DrainConnect
    \/ DrainCount
    \/ DrainTerminate
    \/ DrainRecount
    \/ RecreateConnect
    \/ RecreateCheck
    \/ RecreateDrop
    \/ RecreateCreate
    \/ RestoreCheck
    \/ RestoreSchema
    \/ RestoreData
    \/ ReownConnect
    \/ ReownGrant
    \/ ReownAlter
    \/ CleanupOldBackups
    \/ ReturnSuccess
    \/ HandleDomainError
    \/ HandleUnexpected
    \/ SysExit

FairSpec == Spec /\ WF_vars(DriverStep)

\* ================================================================ claims
Range(q) == {q[i] : i \in 1..Len(q)}

AllStepsCompleted == \A s \in StepNames : status[s]

RestoreAttempted ==
    "pg_restore_schema" \in Range(toolCalls) \/ "pg_restore_data" \in Range(toolCalls)

\* The steps started so far are the first steps of the fixed order, and every
\* step but the last one started has returned without raising.
StartedInOrder ==
    /\ Len(started) <= Len(StepOrder)
    /\ \A i \in 1..Len(started) : started[i] = StepOrder[i]
    /\ \A i \in 1..(Len(started) - 1) : status[StepOrder[i]]

\* C1: the steps are started in the order validate, backup, drain, recreate,
\* restore, reown; a step is started only if every earlier step returned
\* without raising; once a step has raised, no later step is started.
C1_StepOrder ==
    [][StartedInOrder' /\ (exc # "none" => started' = started)]_vars

\* C1 witness: a failing dump ended the run after validate and backup only.
C1_Witness ==
    /\ pc = "exited"
    /\ dumpRes = "nonzero"
    /\ exc = "DatabaseBackupError"
    /\ started = <<"environment_validation", "backup">>

\* C2: main() returns 0 exactly when all six steps completed; every failure
\* (validation, backup, restore, administrative SQL, unexpected exception)
\* gives 1; the process exits with 0 or 1 and nothing else.
C2_ExitCode ==
    /\ mainRet \in {-1, 0, 1}
    /\ mainRet # -1 => (mainRet = 0 <=> AllStepsCompleted)
    /\ (mainRet # -1 /\ exc # "none") => mainRet = 1
    /\ pc = "exited" => /\ exitCode \in {0, 1}
                        /\ exitCode = 0 <=> AllStepsCompleted
    /\ pc # "exited" => exitCode = -1

\* C2 witness: a run that completed all six steps and exited with 0.
C2_Witness == pc = "exited" /\ exitCode = 0 /\ AllStepsCompleted

\* C3: pg_restore is invoked only if backup_database returned successfully in
\* this run and the backup file existed when restore_database checked it.
C3_RestoreNeedsBackup ==
    RestoreAttempted =>
        /\ status["backup"]
        /\ dumpRes = "ok"
        /\ restoreSaw.kind = "file"

\* C3 witness: the backup file was removed after a successful backup, and the
\* restore step ended without invoking pg_restore.
C3_Witness ==
    /\ status["backup"]
    /\ restoreSaw.kind = "absent"
    /\ pc = "exited"
    /\ ~RestoreAttempted

\* C4: the data restore is never invoked unless the schema restore of the same
\* call ended with exit code zero and in time; a failed schema phase skips the
\* data phase and the restore is reported as failed.
C4_DataNeedsSchema ==
    /\ "pg_restore_data" \in Range(toolCalls) => schemaRes = "ok"
    /\ schemaRes \notin {"none", "ok"} =>
          /\ "pg_restore_data" \notin Range(toolCalls)
          /\ ~status["restore"]
          /\ exc = "DatabaseRestoreError"

\* C4 witness: the schema phase timed out and the run ended.
C4_Witness == schemaRes = "timeout" /\ pc = "exited"

\* C5: with a required key missing (absent or empty), the program fails at
\* start-up or validation: no connection is attempted, no tool is invoked and
\* the exit code is 1.
C5_MissingKeyFailsEarly ==
    (\E k \in RequiredKeys : cfg[k] \in {"absent", "empty"}) =>
        /\ connects = <<>>
        /\ toolCalls = <<>>
        /\ Len(started) <= 1
        /\ ~status["environment_validation"]
        /\ pc = "exited" => exitCode = 1

\* C5 witness: a run with an empty required key ended in validation.
C5_Witness ==
    /\ \E k \in RequiredKeys : cfg[k] = "empty"
    /\ started = <<"environment_validation">>
    /\ exc = "BackupRestoreProcessError"
    /\ pc = "exited"

\* C6: when disconnect_users counts zero other sessions, it issues no
\* pg_terminate_backend call and reports success.
C6_ZeroCountNoTerminate ==
    active = 0 => (terminateCalls = 0 /\ status["disconnect_users"])

\* C6 witness: the drain step counted zero and the driver went on to recreate.
C6_Witness == active = 0 /\ pc = "recreate_connect"

\* C7: the sweep deletes a file only if its modification time is strictly
\* older than the cutoff, and never the file the current run produced.
C7_SweepSparesCurrent ==
    sweep.ran =>
        \A r \in sweep.removed : r[2] < sweep.cutoff /\ r[1] # CurFile

\* C8: a dump that exits zero and leaves a file below 1 KiB is warned about
\* and still reported as success; the pipeline goes on with the drain step.
C8_SmallBackupAdvisory ==
    (dumpRes = "ok" /\ dumpSize # -1 /\ dumpSize < SmallBackupFloor) =>
        /\ "small_backup" \in warnings
        /\ status["backup"]
        /\ pc \in {"raise", "returned", "exited"} =>
              "disconnect_users" \in Range(started)

\* C8 witness: a 200-byte backup was restored from.
C8_Witness == dumpSize = 200 /\ status["restore"]

\* C9 as stated: a restore is attempted only when the backup file exists and
\* is not below the 1 KiB floor.
C9_RestoreNeedsNonTrivialSize ==
    RestoreAttempted =>
        (restoreSaw.kind = "file" /\ restoreSaw.size >= SmallBackupFloor)

\* C9 amended: a restore is attempted only when the backup path is an existing
\* regular file at restore_database's check; a size below the 1 KiB floor does
\* not prevent it and has only been warned about by the backup step.
C9_RestoreNeedsFileOnly ==
    RestoreAttempted =>
        /\ restoreSaw.kind = "file"
        /\ restoreSaw.size < SmallBackupFloor => "small_backup" \in warnings

\* C9 witness: pg_restore was invoked on a file of 200 bytes.
C9_Witness == RestoreAttempted /\ restoreSaw.size = 200

\* C10: whenever DROP or CREATE is issued on the target, the other sessions on
\* it have reached zero or the drain step has force-terminated them, whatever
\* external clients do between the count, the terminate call, the re-count and
\* the drop.
C10_DrainedBeforeDrop ==
    /\ othersAtDrop # -1 => (othersAtDrop = 0 \/ terminateCalls > 0)
    /\ othersAtCreate # -1 => othersAtCreate = 0

NoDuplicates(q) == \A i, j \in 1..Len(q) : i # j => q[i] # q[j]

\* C11: no step and no external tool is invoked twice in a run; a timeout of
\* pg_dump or of either restore phase is a failure of its step and the tool is
\* not invoked again.
C11_NoRetry ==
    /\ NoDuplicates(started)
    /\ NoDuplicates(toolCalls)
    /\ dumpRes = "timeout" =>
          (exc = "DatabaseBackupError" /\ ~status["backup"])
    /\ schemaRes = "timeout" =>
          (exc = "DatabaseRestoreError" /\ ~status["restore"] /\ dataRes = "none")
    /\ dataRes = "timeout" =>
          (exc = "DatabaseRestoreError" /\ ~status["restore"])

\* C11 witness: the data phase timed out and the run ended with one call of
\* each tool.
C11_Witness ==
    /\ dataRes = "timeout"
    /\ pc = "exited"
    /\ toolCalls = <<"pg_dump", "pg_restore_schema", "pg_restore_data">>

\* The flags set in operations_status are those of the first k steps.
StatusIsPrefix ==
    \E k \in 0..Len(StepOrder) :
        \A i \in 1..Len(StepOrder) : status[StepOrder[i]] <=> i <= k

\* When a step has failed, its flag and the flags of all later steps are off.
FailureSummaryOK ==
    (exc \in DomainErrors /\ started # <<>>) =>
        \A i \in Len(started)..Len(StepOrder) : ~status[StepOrder[i]]

\* C12: operations_status always marks exactly a prefix of the ordered steps;
\* a flag turns true only when its step, already started, returned without
\* raising; a flag never turns false again; on a failure the failing step and
\* all later steps show as not completed.
C12_StatusPrefix ==
    [][/\ StatusIsPrefix'
       /\ FailureSummaryOK'
       /\ \A s \in StepNames :
             /\ status[s] => status'[s]
             /\ (~status[s] /\ status'[s]) =>
                   (s = started'[Len(started')] /\ exc' = "none")]_vars

\* C12 witness: the run failed in restore with exactly the first four flags on.
C12_Witness ==
    /\ pc = "returned"
    /\ mainRet = 1
    /\ exc = "DatabaseRestoreError"
    /\ status["recreate_db"]
    /\ ~status["restore"]
    /\ ~status["alter_owner"]

\* C13: backup files are deleted only by the retention sweep, and the sweep
\* runs only after all six steps completed: no other step of the driver
\* removes or rewrites an existing backup file, and a run that halts on a
\* failed step has swept nothing.
C13_OnlySweepDeletes ==
    [][/\ sweep'.ran => (AllStepsCompleted' /\ exc' = "none")
       /\ exc' # "none" => (~sweep'.ran /\ sweep'.removed = {})
       /\ (pc' # pc /\ pc # "cleanup") =>
             \A i \in FileIds :
                files[i].kind # "absent" => files'[i] = files[i]]_vars

\* C13 witness: the run halted in reown; its own backup file and an older one
\* are still there and no sweep ran.
C13_Witness ==
    /\ pc = "exited"
    /\ exc = "DatabaseBackupError"
    /\ status["restore"]
    /\ ~sweep.ran
    /\ \A i \in FileIds : files[i].kind = "file"

\* C14: a run in which main() returns emits exactly one notification, not
\* before the outcome is decided: success exactly with return value 0,
\* failure exactly with return value 1.
C14_OneNotification ==
    /\ mainRet = -1 => notes = <<>>
    /\ mainRet # -1 =>
          /\ Len(notes) = 1
          /\ notes[1] = "success" <=> mainRet = 0
          /\ notes[1] = "failure" <=> mainRet = 1

\* C14 witness: an unexpected exception ended the run with one failure
\* notification.
C14_Witness ==
    /\ pc = "exited"
    /\ exc = "TypeError"
    /\ notes = <<"failure">>
    /\ exitCode = 1

\* C15: after a nonzero count the drain step issues one terminate call over
\* the other sessions, keeps its own session, counts again and returns True
\* whether or not the re-count is zero; sessions that remain only produce a
\* warning.
C15_TerminateBestEffort ==
    /\ (active > 0 /\ pc # "drain_terminate") => terminateCalls = 1
    /\ pc = "drain_recount" => ownSession = "target"
    /\ remaining # -1 =>
          /\ active > 0
          /\ terminateCalls = 1
          /\ status["disconnect_users"]
          /\ remaining > 0 => "connections_remain" \in warnings
          /\ remaining = 0 => "connections_remain" \notin warnings

\* C15 witness: sessions survived the terminate call and the driver went on to
\* the recreate step.
C15_Witness ==
    /\ remaining > 0
    /\ status["disconnect_users"]
    /\ pc = "recreate_connect"

IsRecreateStmt(x) == x \in {"DROP", "CREATE"}

RecreateStmts == SelectSeq(sqlLog, IsRecreateStmt)

\* C16: DROP DATABASE is issued exactly when the existence check found the
\* target; CREATE DATABASE is issued once, after the drop when there is one;
\* a failed drop means no create; a failure of either makes the step raise.
C16_DropThenCreate ==
    /\ RecreateStmts \in {<<>>, <<"DROP">>, <<"CREATE">>, <<"DROP", "CREATE">>}
    /\ "DROP" \in Range(RecreateStmts) => dbExists
    /\ (pc = "recreate_create" \/ "CREATE" \in Range(RecreateStmts)) =>
          ("DROP" \in Range(RecreateStmts) <=> dbExists)
    /\ status["recreate_db"] => "CREATE" \in Range(RecreateStmts)
    /\ (RecreateStmts = <<"DROP">> /\ pc # "recreate_create") =>
          (exc = "DatabaseBackupError" /\ ~status["recreate_db"])
    /\ ("CREATE" \in Range(RecreateStmts) /\ ~status["recreate_db"]) =>
          exc = "DatabaseBackupError"

\* C16 witness: the drop failed, no create followed and the run ended.
C16_Witness ==
    /\ RecreateStmts = <<"DROP">>
    /\ pc = "exited"
    /\ exitCode = 1

\* C17: the session on which recreate_target_db issues DROP or CREATE is on
\* a neutral administrative database, never on the target, whatever the
\* configuration.
C17_NeutralSession ==
    [][(pc \in {"recreate_drop", "recreate_create"} /\ sqlLog' # sqlLog) =>
          ownSession = "admin"]_vars

\* C18: every session a step (drain, recreate, reown) opened is closed before
\* the step returns or raises: the driver holds a session only in the middle
\* of one of these steps, never where the next step starts, where main()
\* handles an exception or returns, or when the process has exited.
InsideSessionStep ==
    pc \in {"drain_count", "drain_terminate", "drain_recount",
            "recreate_check", "recreate_drop", "recreate_create",
            "reown_grant", "reown_alter"}

C18_SessionsClosed == ownSession # "none" => InsideSessionStep

C18_Witness ==
    /\ pc = "raise"
    /\ Len(connects) = 3
    /\ "ALTER" \in Range(sqlLog)
    /\ ownSession = "none"

\* C19: alter_db_owner issues grant, commit, alter-owner, commit in this
\* order; the alter-owner statement is issued only after the grant was
\* committed; the step is marked completed exactly when both commits
\* succeeded, and a failure of any of the four raises DatabaseBackupError.
IsReownStmt(x) == x \in {"GRANT", "COMMIT", "ALTER"}

ReownStmts == SelectSeq(sqlLog, IsReownStmt)

ReownOrder == <<"GRANT", "COMMIT", "ALTER", "COMMIT">>

C19_GrantCommitAlterCommit ==
    /\ Len(ReownStmts) <= Len(ReownOrder)
    /\ \A i \in 1..Len(ReownStmts) : ReownStmts[i] = ReownOrder[i]
    /\ "ALTER" \in Range(ReownStmts) => committed >= 1
    /\ status["alter_owner"] <=> committed = 2
    /\ status["alter_owner"] => ReownStmts = ReownOrder
    /\ (ReownStmts # <<>> /\ pc # "reown_alter" /\ committed < 2) =>
          (exc = "DatabaseBackupError" /\ ~status["alter_owner"])

C19_Witness == status["alter_owner"] /\ committed = 2 /\ exitCode = 0

\* C20: a failure inside backup_database, disconnect_users,
\* recreate_target_db, restore_database or alter_db_owner (connect included)
\* leaves the function as a domain error, DatabaseRestoreError from
\* restore_database and DatabaseBackupError from the others, never as a
\* normal return and never as the underlying exception, so main() handles
\* it in its domain-error branch.
LastStarted == started[Len(started)]

ToolFailed(res) == res \notin {"none", "ok"}

C20_DomainErrorsOnly ==
    /\ ("backup" \in Range(started) /\ exc # "none") =>
          /\ ~status[LastStarted]
          /\ exc = (IF LastStarted = "restore" THEN "DatabaseRestoreError"
                    ELSE "DatabaseBackupError")
          /\ exc \in DomainErrors
    /\ ToolFailed(dumpRes) => (exc = "DatabaseBackupError" /\ ~status["backup"])
    /\ (ToolFailed(schemaRes) \/ ToolFailed(dataRes)) =>
          (exc = "DatabaseRestoreError" /\ ~status["restore"])

C20_Witness ==
    /\ schemaRes = "spawn_error"
    /\ exc = "DatabaseRestoreError"
    /\ pc = "returned"
    /\ mainRet = 1

\* C21: restore_database called with a path that does not exist or is not a
\* regular file raises DatabaseRestoreError and invokes neither restore
\* phase.
C21_BadPathNoRestoreTool ==
    restoreSaw.kind \in {"absent", "dir"} =>
        /\ exc = "DatabaseRestoreError"
        /\ "pg_restore_schema" \notin Range(toolCalls)
        /\ "pg_restore_data" \notin Range(toolCalls)
        /\ ~status["restore"]
        /\ pc \in {"raise", "returned", "exited"}

\* C21 witness: a directory stood at the backup path when the restore step
\* checked it.
C21_Witness == restoreSaw.kind = "dir" /\ pc = "raise" /\ status["recreate_db"]

\* C22 (as stated): connect passes the password of the first credentials
\* line that is no comment, has five fields or more and whose host, port,
\* database and user fields equal the request or '*'; when no line
\* qualifies, PGPASSWORD; otherwise no password.  An empty password and no
\* password are not told apart here.
IsCandidate(l) ==
    /\ ~l.comment
    /\ Len(l.fields) >= 5
    /\ \A i \in 1..4 : l.fields[i] \in {Request[i], Wildcard}

Candidates == {i \in 1..Len(pgpass) : IsCandidate(pgpass[i])}

FirstCandidate == pgpass[CHOOSE i \in Candidates : \A j \in Candidates : i <= j]

AfterFourthColon(l) == JoinWith(SubSeq(l.fields, 5, Len(l.fields)), ":")

Effective(p) == IF p = NoPassword THEN <<>> ELSE p

C23_Terminates == <>(pc = "exited" /\ exitCode \in {0, 1})

\* C23 witness: the data restore ran into its timeout and the process
\* exited with 1.
C23_Witness == pc = "exited" /\ exitCode = 1 /\ dataRes = "timeout"

\* C24: for every configuration the dump reads the production source and
\* the destructive operations (terminate, drop, create, restore, grant,
\* alter owner) go to the local target: no run terminates sessions on,
\* drops, recreates, restores into or reowns the database it dumped.
Destructive == {t \in touched : t[1] # "dump"}

C24_SourceNeverTarget ==
    \A d \in touched, t \in Destructive : d[1] = "dump" => t[2] # d[2]

\* C25: within one run drain, recreate, both restore phases and reown
\* address the same (host, port, database name), whatever the local target
\* values are.
C25_OneTarget == \A t \in Destructive, u \in Destructive : t[2] = u[2]

\* C26: a failure inside the retention sweep does not change the outcome of
\* the run: all six status flags stay true, no exception leaves the sweep,
\* main() returns 0 after the success notification and the process exits
\* with 0.
SweepFailed == "cleanup_failed" \in warnings

C26_SweepFailureHarmless ==
    SweepFailed =>
        /\ AllStepsCompleted
        /\ exc = "none"
        /\ pc \in {"notify", "returned", "exited"}
        /\ mainRet \in {-1, 0}
        /\ mainRet = 0 => notes = <<"success">>
        /\ pc = "exited" => exitCode = 0

\* C26 witness: the sweep failed and the run exited with 0.
C26_Witness == SweepFailed /\ pc = "exited" /\ exitCode = 0 /\ notes = <<"success">>


====
